---- MODULE Spec2Model ----
(***************************************************************************)
(* Model of the OSM entity store of tilemaker (include/osm_store.h):       *)
(* the growable memory-mapped arena with its resize-retry loop, the node   *)
(* store in its two variants, the way and relation stores, the generated   *)
(* geometry stores, and the ring stitching of the multipolygon assembler.  *)
(***************************************************************************)
EXTENDS Integers, Sequences, FiniteSets, TLC

(***************************************************************************)
(* Bounds of the model.                                                    *)
(***************************************************************************)
\* the node count handed to the constructor (osm_store_nodes)
osm_store_nodes == 1
\* how many times the arena may grow in one behaviour
MaxGrowths == 1
\* how many live handles (way vectors, relation entries, deque elements that
\* a handle was returned for) the arena holds
MaxHandles == 1
\* how many way ids the outer and the inner sequence handed to
\* wayListMultiPolygon hold at most
MaxOuterWays == 3
MaxInnerWays == 2
\* how many times in a row wayListMultiPolygon is called on the same input
MaxCalls == 2

(***************************************************************************)
(* Program constants.                                                      *)
(***************************************************************************)
\* enum { init_map_size = 1024000000 }, counted in units of 1000000 bytes (the
\* unit the resize message prints); with MaxGrowths doublings map_size stays
\* far below the 2^64 of std::size_t
init_map_size == 1024

(***************************************************************************)
(* Input domains.                                                          *)
(***************************************************************************)
Variants == {"Compact", "Sparse"}
\* node ids: the first id, and the first id beyond a Compact reservation
NodeIDs == {0, osm_store_nodes}
\* LatpLon values <<latp, lon>>; LatpLon() is the zero pair
ZeroLatpLon == <<0, 0>>
Coords == {<<10, 20>>, <<30, 40>>}
WayIDs == {1}
NodeVecs == {<<0, 1, 0>>, <<1, 2>>}
RelIDs == {-1}
RelVals == {<< <<1, 2>>, <<>> >>, << <<1>>, <<2>> >>}
GenNames == {"osm", "shp"}
Points == {<<1, 2>>}
LinestringSrcs == {<< <<0, 0>> >>}
MultiPolygonSrcs == {<< <<0, 0>>, <<1, 0>>, <<1, 1>>, <<0, 0>> >>}
\* addresses at which the operating system may map the file
BaseAddrs == {1000, 2000}

\* the ways and nodes stored when wayListMultiPolygon is called: two closed
\* ways, three open ways that share end nodes, and the corners of a square
StoredWays ==
    << <<100, <<1, 2, 3, 4, 1>> >>, <<101, <<1, 3, 4, 1>> >>, <<200, <<1, 2, 3>> >>,
       <<201, <<3, 4, 1>> >>, <<301, <<1, 4, 3>> >>, <<400, <<2, 4>> >>,
       <<500, <<3, 2>> >> >>
StoredNodes ==
    << <<1, <<0, 0>> >>, <<2, <<0, 10>> >>, <<3, <<10, 10>> >>, <<4, <<10, 0>> >> >>
\* how many of StoredNodes have been inserted (one less: node 4 is dangling)
StoredNodeCounts == {Len(StoredNodes) - 1, Len(StoredNodes)}
\* the way ids a relation may name; 999 is not in the way store
RelationWayIDs == {100, 101, 200, 201, 301, 400, 500, 999}
\* the way ids its inner sequence may name
InnerWayIDs == {101, 400, 999}

VARIABLES
    variant,        \* the NodeStoreT of OSMStoreImpl: "Compact" or "Sparse"
    nodes,          \* *mLatpLons of the node store
    ways,           \* *mNodeLists: way id -> offset of its node vector
    relations,      \* *mOutInLists: pseudo id -> offset of its entry
    generated,      \* osm_generated / shp_generated: the three deques of each
    heap,           \* the objects held in the mapped file, by offset
    map_size,       \* OSMStore::map_size
    file_size,      \* the size of the backing file on disk
    base,           \* the address mmap_file is mapped at
    attached,       \* whether mmap_file holds a mapping
    call,           \* the façade method called last, with its arguments
    err,            \* the exception that call surfaced ("none" when it returned)
    result,         \* the handle that call returned (0 when none)
    attempts,       \* how many times the retry loop ran func() in that call
    issued,         \* live handles returned so far -> what they referred to
    inserted,       \* node ids whose nodes_insert_back succeeded since clear()
    ret,            \* what the assembler method called last on a way returned
    outerWayIds,    \* wayListMultiPolygon: the way ids outerBegin..outerEnd
    innerWayIds,    \* wayListMultiPolygon: the way ids innerBegin..innerEnd
    pc,             \* wayListMultiPolygon: where the call stands
    phase,          \* which mergeMultiPolygonWays call runs: "outer", "inner"
    outers,         \* wayListMultiPolygon: std::vector<NodeVec> outers
    inners,         \* wayListMultiPolygon: std::vector<NodeVec> inners
    done,           \* wayListMultiPolygon: std::map<WayID,bool> done
    it,             \* mergeMultiPolygonWays: the position of the first for loop
    added,          \* mergeMultiPolygonWays: int added
    mp,             \* wayListMultiPolygon: MultiPolygon mp
    within,         \* geom::within, as far as it has been asked: <<inner ring,
                    \* outer ring>> -> its answer
    calls,          \* how many calls of wayListMultiPolygon have been made
    last            \* what the call before the one under way ended with

mergeVars == <<outerWayIds, innerWayIds, pc, phase, outers, inners, done, it, added, mp,
               within, calls, last>>

vars == <<variant, nodes, ways, relations, generated, heap, map_size, file_size,
          base, attached, call, err, result, attempts, issued, inserted, ret, mergeVars>>

\* the store as one value, for the operators that model the methods
St == [nodes |-> nodes, ways |-> ways, relations |-> relations,
       generated |-> generated, heap |-> heap, map_size |-> map_size,
       file_size |-> file_size, base |-> base, attached |-> attached]

(***************************************************************************)
(* Helpers on functions and sequences.                                     *)
(***************************************************************************)
EmptyMap == [x \in {} |-> 0]
Last(q) == q[Len(q)]
Pow2(n) == 2 ^ n
Freed == [t |-> "free", v |-> <<>>]

\* the offsets of heap that hold no object
FreeOffsets(s) == {o \in 1..Len(s.heap) : s.heap[o] = Freed}
\* the offset the segment manager hands out next
NextOffset(s) ==
    IF FreeOffsets(s) = {} THEN Len(s.heap) + 1
    ELSE CHOOSE o \in FreeOffsets(s) : \A p \in FreeOffsets(s) : o <= p
\* the store with obj allocated at NextOffset
Alloc(s, obj) ==
    LET o == NextOffset(s) IN
    [s EXCEPT !.heap = IF o > Len(s.heap) THEN Append(s.heap, obj)
                       ELSE [s.heap EXCEPT ![o] = obj]]
\* the store with the objects at offs deallocated
Free(s, offs) ==
    [s EXCEPT !.heap = [o \in 1..Len(s.heap) |->
                           IF o \in offs THEN Freed ELSE s.heap[o]]]

(***************************************************************************)
(* Handles: offsets relative to the mapping's base address.                *)
(***************************************************************************)
AddressOf(s, off) == s.base + off
get_handle_from_address(s, addr) == addr - s.base
get_address_from_handle(s, h) == s.base + h
\* what lies at an address of the current mapping
Deref(s, addr) ==
    LET off == addr - s.base IN
    IF s.attached /\ off \in 1..Len(s.heap) THEN s.heap[off] ELSE Freed
retrieve(s, h) == Deref(s, get_address_from_handle(s, h)).v

(***************************************************************************)
(* Node store, Compact variant: a vector of osm_store_nodes LatpLon, the   *)
(* value of node id i at index i + 1.                                      *)
(***************************************************************************)
NodeStoreCompact_size(s) == Len(s.nodes)

NodeStoreCompact_at(s, i) ==
    IF i >= NodeStoreCompact_size(s)
    THEN [exc |-> "out_of_range: Could not find node", v |-> ZeroLatpLon]
    ELSE [exc |-> "none", v |-> s.nodes[i + 1]]

\* a variant of insert_back without the range check: the vector takes the slot
NodeStoreCompact_insert_back_unchecked(s, i, coord) ==
    {[s |-> [s EXCEPT !.nodes = [k \in 1..(IF i < Len(s.nodes) THEN Len(s.nodes) ELSE i + 1) |->
                IF k = i + 1 THEN coord
                ELSE IF k <= Len(s.nodes) THEN s.nodes[k] ELSE ZeroLatpLon]],
      exc |-> "none", res |-> 0]}

NodeStoreCompact_insert_back(s, i, coord) ==
    IF i >= NodeStoreCompact_size(s)
    THEN {[s |-> s, exc |-> "out_of_range: Failed to store node", res |-> 0]}
    ELSE {[s |-> [s EXCEPT !.nodes[i + 1] = coord], exc |-> "none", res |-> 0]}

NodeStoreCompact_clear(s) ==
    [s EXCEPT !.nodes = [k \in 1..Len(s.nodes) |-> ZeroLatpLon]]

(***************************************************************************)
(* Node store, Sparse variant: an unordered_map NodeID -> LatpLon.         *)
(***************************************************************************)
NodeStore_size(s) == Cardinality(DOMAIN s.nodes)

\* a variant of at that reads through operator[]: a default value, no exception
NodeStore_at_subscript(s, i) ==
    [exc |-> "none", v |-> IF i \in DOMAIN s.nodes THEN s.nodes[i] ELSE ZeroLatpLon]

NodeStore_at(s, i) ==
    IF i \in DOMAIN s.nodes
    THEN [exc |-> "none", v |-> s.nodes[i]]
    ELSE [exc |-> "out_of_range: Could not find node", v |-> ZeroLatpLon]

\* a variant of insert_back that assigns through operator[], overwriting
NodeStore_insert_back_overwrite(s, i, coord) ==
    {[s |-> s, exc |-> "bad_alloc", res |-> 0],
     [s |-> [s EXCEPT !.nodes = (i :> coord) @@ s.nodes], exc |-> "none", res |-> 0]}

\* emplace allocates the map node first (bad_alloc leaves the map as it was)
\* and keeps the element already stored under an equal key
NodeStore_insert_back(s, i, coord) ==
    {[s |-> s, exc |-> "bad_alloc", res |-> 0],
     [s |-> IF i \in DOMAIN s.nodes THEN s
            ELSE [s EXCEPT !.nodes = (i :> coord) @@ s.nodes],
      exc |-> "none", res |-> 0]}

NodeStore_clear(s) == [s EXCEPT !.nodes = EmptyMap]

(***************************************************************************)
(* OSMStoreImpl: the node store behind the virtual impl_ methods.          *)
(***************************************************************************)
impl_nodes_insert_back(s, i, coord) ==
    IF variant = "Compact" THEN NodeStoreCompact_insert_back(s, i, coord)
    ELSE NodeStore_insert_back(s, i, coord)

nodes_at(s, i) ==
    IF variant = "Compact" THEN NodeStoreCompact_at(s, i) ELSE NodeStore_at(s, i)

nodes_size(s) ==
    IF variant = "Compact" THEN NodeStoreCompact_size(s) ELSE NodeStore_size(s)

(***************************************************************************)
(* Way store and relation store: unordered_maps whose values live in the   *)
(* arena; emplace keeps the element already stored under an equal key.    *)
(***************************************************************************)
WayStore_size(s) == Cardinality(DOMAIN s.ways)

\* a variant of insert_back that looks its node ids up before it stores them
WayStore_insert_back_checked(s, i, nodeVec) ==
    IF \E k \in 1..Len(nodeVec) : nodes_at(s, nodeVec[k]).exc # "none"
    THEN {[s |-> s, exc |-> "out_of_range: Could not find node", res |-> 0]}
    ELSE {[s |-> s, exc |-> "bad_alloc", res |-> 0],
          [s |-> [Alloc(s, [t |-> "way", v |-> nodeVec])
                    EXCEPT !.ways = (i :> NextOffset(s)) @@ s.ways],
           exc |-> "none", res |-> NextOffset(s)]}

\* a variant of insert_back that assigns to the element already stored
WayStore_insert_back_assign(s, i, nodeVec) ==
    {[s |-> s, exc |-> "bad_alloc", res |-> 0]} \cup
    {IF i \in DOMAIN s.ways
     THEN [s |-> [s EXCEPT !.heap[s.ways[i]] = [t |-> "way", v |-> nodeVec]],
           exc |-> "none", res |-> s.ways[i]]
     ELSE [s |-> [Alloc(s, [t |-> "way", v |-> nodeVec])
                    EXCEPT !.ways = (i :> NextOffset(s)) @@ s.ways],
           exc |-> "none", res |-> NextOffset(s)]}

\* res is the offset of the stored node vector
WayStore_insert_back(s, i, nodeVec) ==
    {[s |-> s, exc |-> "bad_alloc", res |-> 0]} \cup
    {IF i \in DOMAIN s.ways
     THEN [s |-> s, exc |-> "none", res |-> s.ways[i]]
     ELSE [s |-> [Alloc(s, [t |-> "way", v |-> nodeVec])
                    EXCEPT !.ways = (i :> NextOffset(s)) @@ s.ways],
           exc |-> "none", res |-> NextOffset(s)]}

WayStore_at(s, i) ==
    IF i \in DOMAIN s.ways
    THEN [exc |-> "none", v |-> s.heap[s.ways[i]].v]
    ELSE [exc |-> "out_of_range: Could not find way", v |-> <<>>]

WayStore_clear(s) == [Free(s, {s.ways[i] : i \in DOMAIN s.ways}) EXCEPT !.ways = EmptyMap]

RelationStore_size(s) == Cardinality(DOMAIN s.relations)

RelationStore_insert_front(s, i, outerWayVec, innerWayVec) ==
    {[s |-> s, exc |-> "bad_alloc", res |-> 0]} \cup
    {IF i \in DOMAIN s.relations
     THEN [s |-> s, exc |-> "none", res |-> s.relations[i]]
     ELSE [s |-> [Alloc(s, [t |-> "relation", v |-> <<outerWayVec, innerWayVec>>])
                    EXCEPT !.relations = (i :> NextOffset(s)) @@ s.relations],
           exc |-> "none", res |-> NextOffset(s)]}

RelationStore_clear(s) ==
    [Free(s, {s.relations[i] : i \in DOMAIN s.relations}) EXCEPT !.relations = EmptyMap]

(***************************************************************************)
(* Generated geometry stores: deques whose elements live in the arena.     *)
(* What func() of each store_ method does in one attempt.                  *)
(***************************************************************************)
\* the store with obj appended to deque d of geometry store g
PushBack(s, g, d, obj) ==
    [Alloc(s, obj) EXCEPT !.generated[g][d] = Append(s.generated[g][d], NextOffset(s))]

\* the address of store.<d>->back()
BackAddress(s, g, d) == AddressOf(s, Last(s.generated[g][d]))

\* points_store->emplace_back(x, y)
store_point_func(s, g, input) ==
    {[s |-> s, exc |-> "bad_alloc", res |-> 0],
     [s |-> PushBack(s, g, "points_store", [t |-> "point", v |-> input]),
      exc |-> "none", res |-> 0]}

\* the proper prefixes of src: what an assign cut short by bad_alloc has copied
ProperPrefixes(src) == {SubSeq(src, 1, k) : k \in 0..(Len(src) - 1)}

\* linestring_store->resize(size() + 1), then assign(back(), src): bad_alloc
\* is thrown by the resize (nothing changed) or by the assign (the deque
\* already holds the new element)
store_linestring_func(s, g, src) ==
    {[s |-> s, exc |-> "bad_alloc", res |-> 0]} \cup
    {[s |-> PushBack(s, g, "linestring_store", [t |-> "linestring", v |-> part]),
      exc |-> "bad_alloc", res |-> 0] : part \in ProperPrefixes(src)} \cup
    {[s |-> PushBack(s, g, "linestring_store", [t |-> "linestring", v |-> src]),
      exc |-> "none", res |-> 0]}

\* the multipolygon is built in a local and pushed last: bad_alloc while it
\* is built, or in push_back, unwinds the local and leaves the deque alone
store_multi_polygon_func(s, g, src) ==
    {[s |-> s, exc |-> "bad_alloc", res |-> 0],
     [s |-> PushBack(s, g, "multi_polygon_store", [t |-> "multi_polygon", v |-> src]),
      exc |-> "none", res |-> 0]}

\* the calls of the façade's mutating methods, as values
NodeOp(i, coord) == [op |-> "nodes_insert_back", i |-> i, g |-> "", v |-> coord]
WayOp(i, nodeVec) == [op |-> "ways_insert_back", i |-> i, g |-> "", v |-> nodeVec]
RelationOp(i, outerWayVec, innerWayVec) ==
    [op |-> "relations_insert_front", i |-> i, g |-> "", v |-> <<outerWayVec, innerWayVec>>]
GeometryOp(name, g, input) == [op |-> name, i |-> 0, g |-> g, v |-> input]

(***************************************************************************)
(* The lambdas handed to perform_mmap_operation, by the method that makes  *)
(* them: the set of outcomes [s, exc, res] of one attempt.                 *)
(***************************************************************************)
func(s, op) ==
    CASE op.op = "nodes_insert_back" -> impl_nodes_insert_back(s, op.i, op.v)
      [] op.op = "ways_insert_back" -> WayStore_insert_back(s, op.i, op.v)
      [] op.op = "relations_insert_front" ->
            RelationStore_insert_front(s, op.i, op.v[1], op.v[2])
      [] op.op = "store_point" -> store_point_func(s, op.g, op.v)
      [] op.op = "store_linestring" -> store_linestring_func(s, op.g, op.v)
      [] op.op = "store_multi_polygon" -> store_multi_polygon_func(s, op.g, op.v)

EmptyGenerated ==
    [g \in GenNames |-> [points_store |-> <<>>, linestring_store |-> <<>>,
                         multi_polygon_store |-> <<>>]]

\* the file create_mmap_file() has made, mapped at addr, all containers empty
Created(v, addr) ==
    [nodes |-> IF v = "Compact" THEN <<>> ELSE EmptyMap, ways |-> EmptyMap,
     relations |-> EmptyMap, generated |-> EmptyGenerated, heap |-> <<>>,
     map_size |-> init_map_size, file_size |-> init_map_size, base |-> addr,
     attached |-> TRUE]

(***************************************************************************)
(* The catch block of perform_mmap_operation: detach, grow the file by     *)
(* map_size, double map_size, open the file again and reopen().            *)
(***************************************************************************)
\* managed_mapped_file::grow returns false when the file cannot be extended;
\* the result is not looked at
grow(s, ok) ==
    [s EXCEPT !.attached = FALSE,
              !.file_size = IF ok THEN s.file_size + s.map_size ELSE s.file_size]

\* a variant of open_mmap_file that calls create_mmap_file(): a fresh file
open_mmap_file_create(s, addr) ==
    [Created(variant, addr) EXCEPT !.map_size = s.map_size]

\* open_only maps the file as it is on disk, at an address the system picks
open_mmap_file(s, addr) == [s EXCEPT !.attached = TRUE, !.base = addr]

\* the stores after the catch block ran to its end, and (mapped = FALSE)
\* after open_mmap_file threw out of it
Resize(s) ==
    LET grown == {[grow(s, ok) EXCEPT !.map_size = s.map_size * 2] : ok \in BOOLEAN}
    IN  {[s |-> open_mmap_file(g, addr), mapped |-> TRUE] : g \in grown, addr \in BaseAddrs}
        \cup {[s |-> g, mapped |-> FALSE] : g \in grown}

\* a variant of perform_mmap_operation without the catch block
perform_mmap_operation_nocatch(s, op, n) ==
    {[s |-> r.s, exc |-> r.exc, res |-> r.res, attempts |-> n] : r \in func(s, op)}

\* the outcomes [s, exc, res, attempts] of perform_mmap_operation(func), the
\* n-th attempt being the next; bad_alloc is not raised once the arena has
\* grown MaxGrowths times
RECURSIVE perform_mmap_operation(_, _, _)
perform_mmap_operation(s, op, n) ==
    UNION {
        IF r.exc = "bad_alloc"
        THEN IF s.map_size < init_map_size * Pow2(MaxGrowths)
             THEN UNION {
                    IF g.mapped
                    THEN perform_mmap_operation(g.s, op, n + 1)
                    ELSE {[s |-> g.s, exc |-> "interprocess_exception",
                           res |-> 0, attempts |-> n]}
                    : g \in Resize(r.s)}
             ELSE {}
        ELSE {[s |-> r.s, exc |-> r.exc, res |-> r.res, attempts |-> n]}
        : r \in func(s, op)}

(***************************************************************************)
(* Construction: OSMStore maps a fresh file of init_map_size, and          *)
(* OSMStoreImpl reopens and reserves inside the retry loop.                *)
(***************************************************************************)
\* nodes.reserve(osm_store_nodes); ways.reserve(osm_store_ways)
reserve_func(s) ==
    LET resized == IF variant = "Compact"
                   THEN [s EXCEPT !.nodes = [k \in 1..osm_store_nodes |->
                            IF k <= Len(s.nodes) THEN s.nodes[k] ELSE ZeroLatpLon]]
                   ELSE s
    IN  {[s |-> s, exc |-> "bad_alloc", res |-> 0],
         [s |-> resized, exc |-> "bad_alloc", res |-> 0],
         [s |-> resized, exc |-> "none", res |-> 0]}

RECURSIVE construct(_, _)
construct(s, n) ==
    UNION {
        IF r.exc = "bad_alloc"
        THEN IF s.map_size < init_map_size * Pow2(MaxGrowths)
             THEN UNION {IF g.mapped THEN construct(g.s, n + 1) ELSE {} : g \in Resize(r.s)}
             ELSE {}
        ELSE {r.s}
        : r \in reserve_func(s)}

\* no call of wayListMultiPolygon is under way
NoCall ==
    /\ outerWayIds = <<>>
    /\ innerWayIds = <<>>
    /\ pc = "idle"
    /\ phase = "outer"
    /\ outers = <<>>
    /\ inners = <<>>
    /\ done = EmptyMap
    /\ it = 1
    /\ added = 0
    /\ mp = <<>>
    /\ within = EmptyMap
    /\ calls = 0
    /\ last = [calls |-> 0]

Init ==
    /\ variant \in Variants
    /\ \E addr \in BaseAddrs : \E s \in construct(Created(variant, addr), 1) :
          /\ nodes = s.nodes
          /\ ways = s.ways
          /\ relations = s.relations
          /\ generated = s.generated
          /\ heap = s.heap
          /\ map_size = s.map_size
          /\ file_size = s.file_size
          /\ base = s.base
          /\ attached = s.attached
    /\ call = [op |-> "OSMStoreImpl"]
    /\ err = "none"
    /\ result = 0
    /\ attempts = 1
    /\ issued = EmptyMap
    /\ inserted = {}
    /\ ret = <<>>
    /\ NoCall

(***************************************************************************)
(* The façade's mutating methods, one action each.                         *)
(***************************************************************************)
\* the handles live in store s, once handle h (0: none) has been returned
Issue(s, h) == IF h = 0 THEN issued ELSE (h :> retrieve(s, h)) @@ issued

\* whether the bound lets a call store one more object
CanStore == Cardinality(DOMAIN issued) < MaxHandles

\* the store and the record of the call after a method that ended as out
\* and returned handle h (0: none)
Commit(op, out, h) ==
    /\ nodes' = out.s.nodes
    /\ ways' = out.s.ways
    /\ relations' = out.s.relations
    /\ generated' = out.s.generated
    /\ heap' = out.s.heap
    /\ map_size' = out.s.map_size
    /\ file_size' = out.s.file_size
    /\ base' = out.s.base
    /\ attached' = out.s.attached
    /\ call' = op
    /\ err' = out.exc
    /\ result' = h
    /\ attempts' = out.attempts
    /\ issued' = Issue(out.s, h)
    /\ variant' = variant
    /\ UNCHANGED <<ret, mergeVars>>

nodes_insert_back(i, coord) ==
    /\ attached
    /\ \E out \in perform_mmap_operation(St, NodeOp(i, coord), 1) :
          /\ Commit(NodeOp(i, coord), out, 0)
          /\ inserted' = IF out.exc = "none" THEN inserted \cup {i} ELSE inserted

\* the handle of the object at offset out.res, taken inside the lambda
HandleOf(out) ==
    IF out.exc = "none" THEN get_handle_from_address(out.s, AddressOf(out.s, out.res))
    ELSE 0

ways_insert_back(i, nodeVec) ==
    /\ attached
    /\ i \in DOMAIN ways \/ CanStore
    /\ \E out \in perform_mmap_operation(St, WayOp(i, nodeVec), 1) :
          Commit(WayOp(i, nodeVec), out, HandleOf(out))
    /\ UNCHANGED inserted

relations_insert_front(i, outerWayVec, innerWayVec) ==
    /\ attached
    /\ i \in DOMAIN relations \/ CanStore
    /\ \E out \in perform_mmap_operation(St, RelationOp(i, outerWayVec, innerWayVec), 1) :
          Commit(RelationOp(i, outerWayVec, innerWayVec), out, HandleOf(out))
    /\ UNCHANGED inserted

\* the handle of deque d's back(), taken once the retry loop has returned
BackHandle(out, g, d) ==
    IF out.exc = "none" THEN get_handle_from_address(out.s, BackAddress(out.s, g, d))
    ELSE 0

store_point(g, input) ==
    /\ attached
    /\ CanStore
    /\ \E out \in perform_mmap_operation(St, GeometryOp("store_point", g, input), 1) :
          Commit(GeometryOp("store_point", g, input), out, BackHandle(out, g, "points_store"))
    /\ UNCHANGED inserted

store_linestring(g, src) ==
    /\ attached
    /\ CanStore
    /\ \E out \in perform_mmap_operation(St, GeometryOp("store_linestring", g, src), 1) :
          Commit(GeometryOp("store_linestring", g, src), out, BackHandle(out, g, "linestring_store"))
    /\ UNCHANGED inserted

store_multi_polygon(g, src) ==
    /\ attached
    /\ CanStore
    /\ \E out \in perform_mmap_operation(St, GeometryOp("store_multi_polygon", g, src), 1) :
          Commit(GeometryOp("store_multi_polygon", g, src), out, BackHandle(out, g, "multi_polygon_store"))
    /\ UNCHANGED inserted

\* OSMStoreImpl::clear: nodes.clear(); ways.clear(); relations.clear()
clear_func(s) ==
    LET n == IF variant = "Compact" THEN NodeStoreCompact_clear(s) ELSE NodeStore_clear(s)
    IN  RelationStore_clear(WayStore_clear(n))

\* the handles of issued that still name an object of store s
LiveHandles(s) == {h \in DOMAIN issued : Deref(s, get_address_from_handle(s, h)) # Freed}

clear ==
    /\ attached
    /\ nodes' = clear_func(St).nodes
    /\ ways' = clear_func(St).ways
    /\ relations' = clear_func(St).relations
    /\ heap' = clear_func(St).heap
    /\ issued' = [h \in LiveHandles(clear_func(St)) |-> issued[h]]
    /\ inserted' = {}
    /\ call' = [op |-> "clear"]
    /\ err' = "none"
    /\ result' = 0
    /\ attempts' = 0
    /\ UNCHANGED <<variant, generated, map_size, file_size, base, attached, ret, mergeVars>>

Next ==
    \/ \E i \in NodeIDs, coord \in Coords : nodes_insert_back(i, coord)
    \/ \E i \in WayIDs, nodeVec \in NodeVecs : ways_insert_back(i, nodeVec)
    \/ \E i \in RelIDs, rv \in RelVals : relations_insert_front(i, rv[1], rv[2])
    \/ \E g \in GenNames, input \in Points : store_point(g, input)
    \/ \E src \in LinestringSrcs : store_linestring("osm", src)
    \/ \E src \in MultiPolygonSrcs : store_multi_polygon("shp", src)
    \/ clear

Spec == Init /\ [][Next]_vars

(***************************************************************************)
(* Relation -> MultiPolygon: wayListMultiPolygon with the ring stitching   *)
(* of mergeMultiPolygonWays, one step per iteration of its loops.          *)
(***************************************************************************)
storeVars == <<variant, nodes, ways, relations, generated, heap, map_size, file_size,
               base, attached, call, result, attempts, issued, inserted, ret>>

\* *way.begin == *std::prev(way.end)
isClosed(way) == way[1] = way[Len(way)]

\* the range make_reverse_iterator(nodes.end) .. make_reverse_iterator(nodes.begin)
Reverse(q) == [k \in 1..Len(q) |-> q[Len(q) + 1 - k]]

Min(S) == CHOOSE x \in S : \A y \in S : x <= y

\* std::map::operator[]: a key read for the first time is stored as false
Subscript(d, w) == IF w \in DOMAIN d THEN d ELSE (w :> FALSE) @@ d

\* a variant of the branch that tests the two prepending cases first
JoinCase_prependFirst(ot, wayNodes) ==
    LET jFirst == wayNodes[1]
        jLast == wayNodes[Len(wayNodes)]
        oFirst == ot[1]
        oLast == ot[Len(ot)]
    IN  IF jFirst = jLast THEN 0
        ELSE IF jLast = oFirst THEN 3
        ELSE IF jFirst = oFirst THEN 4
        ELSE IF oLast = jFirst THEN 1
        ELSE IF oLast = jLast THEN 2
        ELSE 0

\* the branch that the loop over results takes for chain ot and the way's
\* nodes: 1 append, 2 append reversed, 3 prepend, 4 prepend reversed, 0 none
JoinCase(ot, wayNodes) ==
    LET jFirst == wayNodes[1]
        jLast == wayNodes[Len(wayNodes)]
        oFirst == ot[1]
        oLast == ot[Len(ot)]
    IN  IF jFirst = jLast THEN 0
        ELSE IF oLast = jFirst THEN 1
        ELSE IF oLast = jLast THEN 2
        ELSE IF jLast = oFirst THEN 3
        ELSE IF jFirst = oFirst THEN 4
        ELSE 0

\* ot->insert(...) of the branch c: the whole range of nodes goes in
insert(ot, wayNodes, c) ==
    CASE c = 1 -> ot \o wayNodes
      [] c = 2 -> ot \o Reverse(wayNodes)
      [] c = 3 -> wayNodes \o ot
      [] c = 4 -> Reverse(wayNodes) \o ot

\* the body of the first for loop for way id w, in store s, with chains
\* results, map d0 and counter n
forBody(results, d0, n, s, w) ==
    LET d == Subscript(d0, w)
        way == WayStore_at(s, w)
        wayNodes == way.v
        matching == {k \in 1..Len(results) : JoinCase(results[k], wayNodes) # 0}
        ot == Min(matching)
    IN  IF d[w]
        THEN [results |-> results, done |-> d, added |-> n, exc |-> "none"]
        ELSE IF way.exc # "none"
        THEN [results |-> results, done |-> d, added |-> n, exc |-> way.exc]
        ELSE IF isClosed(wayNodes)
        THEN [results |-> Append(results, wayNodes), done |-> [d EXCEPT ![w] = TRUE],
              added |-> n + 1, exc |-> "none"]
        ELSE IF matching # {}
        THEN [results |-> [results EXCEPT
                             ![ot] = insert(results[ot], wayNodes, JoinCase(results[ot], wayNodes))],
              done |-> [d EXCEPT ![w] = TRUE], added |-> n + 1, exc |-> "none"]
        ELSE [results |-> results, done |-> d, added |-> n, exc |-> "none"]

\* a variant of the seeding that runs after every pass, whatever it added
seedBody_always(results, d0, n, s, ids) ==
    LET undone == {k \in 1..Len(ids) : ~Subscript(d0, ids[k])[ids[k]]}
        k == Min(undone)
        way == WayStore_at(s, ids[k])
    IN  IF undone = {} \/ way.exc # "none"
        THEN [results |-> results, done |-> d0, added |-> n, exc |-> "none"]
        ELSE [results |-> Append(results, way.v),
              done |-> [Subscript(d0, ids[k]) EXCEPT ![ids[k]] = TRUE],
              added |-> n + 1, exc |-> "none"]

\* a variant of the seeding that adds no way
seedBody_skipped(results, d0, n, s, ids) ==
    [results |-> results, done |-> d0, added |-> n, exc |-> "none"]

\* if (added==0) { the seeding for loop over ids }
seedBody(results, d0, n, s, ids) ==
    LET undone == {k \in 1..Len(ids) : ~Subscript(d0, ids[k])[ids[k]]}
        k == Min(undone)
        read == {ids[j] : j \in 1..(IF undone = {} THEN Len(ids) ELSE k)}
        d == [w \in DOMAIN d0 \cup read |-> IF w \in DOMAIN d0 THEN d0[w] ELSE FALSE]
        way == WayStore_at(s, ids[k])
    IN  IF n # 0
        THEN [results |-> results, done |-> d0, added |-> n, exc |-> "none"]
        ELSE IF undone = {}
        THEN [results |-> results, done |-> d, added |-> n, exc |-> "none"]
        ELSE IF way.exc # "none"
        THEN [results |-> results, done |-> d, added |-> n, exc |-> way.exc]
        ELSE [results |-> Append(results, way.v), done |-> [d EXCEPT ![ids[k]] = TRUE],
              added |-> n + 1, exc |-> "none"]

\* a variant of the point that takes x from latp and y from lon
Point_latplon(ll) == <<ll[1], ll[2]>>

\* the first for loop from position k on, started on the locals m
RECURSIVE forLoop(_, _, _, _)
forLoop(m, s, ids, k) ==
    IF k > Len(ids) \/ m.exc # "none" THEN m
    ELSE CHOOSE r \in {forLoop(n, s, ids, k + 1) :
                         n \in {forBody(m.results, m.done, m.added, s, ids[k])}} : TRUE

\* mergeMultiPolygonWays run to its end on the sequence ids: the passes of
\* the do-while loop, each the for loop and then the seeding
RECURSIVE mergeMultiPolygonWays(_, _, _, _)
mergeMultiPolygonWays(results, d, s, ids) ==
    CHOOSE r \in
        {IF q.exc # "none" \/ q.added = 0 THEN q
         ELSE mergeMultiPolygonWays(q.results, q.done, s, ids) :
            q \in {IF p.exc # "none" THEN p
                   ELSE seedBody(p.results, p.done, p.added, s, ids) :
                      p \in {forLoop([results |-> results, done |-> d, added |-> 0,
                                      exc |-> "none"], s, ids, 1)}}} : TRUE

\* geom::make<Point>(ll.lon/10000000.0, ll.latp/10000000.0): x from lon, y
\* from latp, both kept in units of 1e-7 degree
Point(ll) == <<ll[2], ll[1]>>

\* the points pushed for the node ids of a chain, or the exception of the
\* first node that nodes_at does not find
fillPoints(s, nodeIds) ==
    LET missing == {k \in 1..Len(nodeIds) : nodes_at(s, nodeIds[k]).exc # "none"}
    IN  IF missing # {}
        THEN [exc |-> nodes_at(s, nodeIds[Min(missing)]).exc, v |-> <<>>]
        ELSE [exc |-> "none",
              v |-> [k \in 1..Len(nodeIds) |-> Point(nodes_at(s, nodeIds[k]).v)]]

\* a variant of the attachment that gives every polygon every inner ring
Attached_all(rings, sel) == rings

\* a variant of the attachment that puts the rings in backward order
Attached_backward(rings, sel) ==
    [k \in 1..Cardinality(sel) |->
        rings[CHOOSE i \in sel : Cardinality({j \in sel : j > i}) = k - 1]]

\* the rings whose index is in sel, in the order of rings
Attached(rings, sel) ==
    [k \in 1..Cardinality(sel) |->
        rings[CHOOSE i \in sel : Cardinality({j \in sel : j < i}) = k - 1]]

\* twice the signed area of the ring p[1..k] closed back to p[1] (shoelace):
\* positive when the ring runs counter-clockwise
RECURSIVE Area2(_, _)
Area2(p, k) ==
    IF k = 0 THEN 0
    ELSE LET q == p[(k % Len(p)) + 1]
         IN  p[k][1] * q[2] - q[1] * p[k][2] + Area2(p, k - 1)

\* geom::correct on one ring: reversed when it runs the wrong way round
correctRing(ring, ccw) ==
    IF (ccw /\ Area2(ring, Len(ring)) < 0) \/ (~ccw /\ Area2(ring, Len(ring)) > 0)
    THEN Reverse(ring) ELSE ring

\* geom::correct(mp): outer rings counter-clockwise, inner rings clockwise
correct(m) ==
    [o \in 1..Len(m) |->
        [outer |-> correctRing(m[o].outer, TRUE),
         inners |-> [i \in 1..Len(m[o].inners) |-> correctRing(m[o].inners[i], FALSE)]]]

\* the sequence and the chains of the mergeMultiPolygonWays call under way
WaySeq == IF phase = "outer" THEN outerWayIds ELSE innerWayIds
Results == IF phase = "outer" THEN outers ELSE inners

\* the locals after a loop body that ended as r; an exception leaves the call
MergeStep(r, nextIt, nextPc) ==
    /\ outers' = IF phase = "outer" THEN r.results ELSE outers
    /\ inners' = IF phase = "inner" THEN r.results ELSE inners
    /\ done' = r.done
    /\ added' = r.added
    /\ err' = r.exc
    /\ it' = IF r.exc = "none" THEN nextIt ELSE it
    /\ pc' = IF r.exc = "none" THEN nextPc ELSE "thrown"
    /\ UNCHANGED <<outerWayIds, innerWayIds, phase, mp, within, calls, last, storeVars>>

\* a variant of the map declared in wayListMultiPolygon that outlives the
\* call (a static local)
StaticDone == done

\* std::map<WayID,bool> done: a local of wayListMultiPolygon, empty at each call
FreshDone == EmptyMap

\* a variant of the test for no outers that never quits
noOuters_ignored == FALSE

\* if (outerBegin == outerEnd) { return mp; } // no outers so quit
noOuters == outerWayIds = <<>>

\* what a call that has ended returned or threw, with the chains it ended on
Ended == [calls |-> calls, outers |-> outers, inners |-> inners, mp |-> mp, err |-> err]

\* a call of wayListMultiPolygon (the first, or one more on the same input
\* once the call before has ended) up to its first loop: the locals are
\* constructed; no outers so quit, else the first mergeMultiPolygonWays call
wayListMultiPolygon ==
    /\ \/ pc = "call" /\ last' = last
       \/ pc \in {"return", "thrown"} /\ calls < MaxCalls /\ last' = Ended
    /\ calls' = calls + 1
    /\ pc' = IF noOuters THEN "return" ELSE "for"
    /\ mp' = <<>>
    /\ outers' = <<>>
    /\ inners' = <<>>
    /\ done' = FreshDone
    /\ phase' = "outer"
    /\ it' = 1
    /\ added' = 0
    /\ err' = "none"
    /\ UNCHANGED <<outerWayIds, innerWayIds, within, storeVars>>

\* one iteration of: for (auto it = itBegin; it != itEnd; ++it)
mergeMultiPolygonWays_for ==
    /\ pc = "for"
    /\ it <= Len(WaySeq)
    /\ MergeStep(forBody(Results, done, added, St, WaySeq[it]), it + 1, "for")

\* the end of that loop, then: if (added==0) { seed }
mergeMultiPolygonWays_seed ==
    /\ pc = "for"
    /\ it > Len(WaySeq)
    /\ MergeStep(seedBody(Results, done, added, St, WaySeq), it, "while")

\* a variant of the second call that is handed a map of its own
innersDone_own == EmptyMap

\* mergeMultiPolygonWays(inners, done, innerBegin, innerEnd): the map that
\* the merge of the outers has filled goes to the merge of the inners
innersDone == done

\* while (added>0): the next pass, or the return to wayListMultiPolygon,
\* which merges the inners next and then fills the polygons
mergeMultiPolygonWays_while ==
    /\ pc = "while"
    /\ IF added > 0
       THEN pc' = "for" /\ phase' = phase
       ELSE IF phase = "outer"
       THEN pc' = "for" /\ phase' = "inner"
       ELSE pc' = "fill" /\ phase' = phase
    /\ added' = IF pc' = "for" THEN 0 ELSE added
    /\ it' = IF pc' = "for" THEN 1 ELSE it
    /\ done' = IF phase' # phase THEN innersDone ELSE done
    /\ UNCHANGED <<outerWayIds, innerWayIds, outers, inners, mp, err, within, calls,
                   last, storeVars>>

\* add all inners and outers to the multipolygon; geom::within is any
\* relation between inner rings and outer rings, the same at every call
fillPolygons ==
    /\ pc = "fill"
    /\ LET filledInners == [i \in 1..Len(inners) |-> fillPoints(St, inners[i])]
           filledOuters == [o \in 1..Len(outers) |-> fillPoints(St, outers[o])]
           filled == filledInners \o filledOuters
           failed == {k \in 1..Len(filled) : filled[k].exc # "none"}
       IN  IF failed # {}
           THEN /\ err' = filled[Min(failed)].exc
                /\ pc' = "thrown"
                /\ mp' = mp
                /\ within' = within
           ELSE /\ err' = err
                /\ pc' = "correct"
                /\ LET asked == {<<filledInners[i].v, filledOuters[o].v>> :
                                    i \in 1..Len(inners), o \in 1..Len(outers)}
                   IN  \E answers \in [asked \ DOMAIN within -> BOOLEAN] :
                          within' = answers @@ within
                /\ mp' = [o \in 1..Len(outers) |->
                            [outer |-> filledOuters[o].v,
                             inners |-> Attached([i \in 1..Len(inners) |-> filledInners[i].v],
                                 {i \in 1..Len(inners) :
                                     within'[<<filledInners[i].v, filledOuters[o].v>>]})]]
    /\ UNCHANGED <<outerWayIds, innerWayIds, phase, outers, inners, done, it, added, calls,
                   last, storeVars>>

\* fix winding, return mp
correctWinding ==
    /\ pc = "correct"
    /\ mp' = correct(mp)
    /\ pc' = "return"
    /\ UNCHANGED <<outerWayIds, innerWayIds, phase, outers, inners, done, it, added,
                   err, within, calls, last, storeVars>>

\* the store after the calls ops, none of which ran out of space
RECURSIVE Stored(_, _)
Stored(s, ops) ==
    IF ops = <<>> THEN s
    ELSE CHOOSE t \in {Stored(r.s, Tail(ops)) : r \in {x \in func(s, ops[1]) : x.exc = "none"}} : TRUE

\* the inserts that fill the store: the first n nodes (the Compact store has
\* no slot for them) and the ways
StoreOps(v, n) ==
    (IF v = "Compact" THEN <<>>
     ELSE [k \in 1..n |-> NodeOp(StoredNodes[k][1], StoredNodes[k][2])])
    \o [k \in 1..Len(StoredWays) |-> WayOp(StoredWays[k][1], StoredWays[k][2])]

\* the way id sequences of at most n ids
WayVecs(ids, n) == UNION {[1..k -> ids] : k \in 0..n}

\* a call of wayListMultiPolygon on a store that holds nodes and ways
InitMerge ==
    /\ variant \in Variants
    /\ \E n \in StoredNodeCounts :
       \E s0 \in construct(Created(variant, Min(BaseAddrs)), 1) :
       \E s \in {Stored(s0, StoreOps(variant, n))} :
          /\ s0.map_size = init_map_size
          /\ LET ops == StoreOps(variant, n)
             IN  /\ nodes = s.nodes
                 /\ ways = s.ways
                 /\ relations = s.relations
                 /\ generated = s.generated
                 /\ heap = s.heap
                 /\ map_size = s.map_size
                 /\ file_size = s.file_size
                 /\ base = s.base
                 /\ attached = s.attached
                 /\ call = ops[Len(ops)]
                 /\ result = get_handle_from_address(s, AddressOf(s, s.ways[ops[Len(ops)].i]))
                 /\ issued = [h \in {s.ways[i] : i \in DOMAIN s.ways} |-> retrieve(s, h)]
                 /\ inserted = {ops[k].i : k \in {j \in 1..Len(ops) : ops[j].op = "nodes_insert_back"}}
    /\ err = "none"
    /\ attempts = 1
    /\ ret = <<>>
    /\ outerWayIds \in WayVecs(RelationWayIDs, MaxOuterWays)
    /\ innerWayIds \in WayVecs(InnerWayIDs, MaxInnerWays)
    /\ pc = "call"
    /\ phase = "outer"
    /\ outers = <<>>
    /\ inners = <<>>
    /\ done = EmptyMap
    /\ it = 1
    /\ added = 0
    /\ mp = <<>>
    /\ within = EmptyMap
    /\ calls = 0
    /\ last = [calls |-> 0]

NextMerge ==
    \/ wayListMultiPolygon
    \/ mergeMultiPolygonWays_for
    \/ mergeMultiPolygonWays_seed
    \/ mergeMultiPolygonWays_while
    \/ fillPolygons
    \/ correctWinding

SpecMerge == InitMerge /\ [][NextMerge]_vars

\* the call runs on: one thread executes wayListMultiPolygon step after step
SpecMergeLive == SpecMerge /\ WF_vars(NextMerge)

(***************************************************************************)
(* The assembler's methods on one way, and the store's inserts next to the *)
(* assembler: a caller that stores nodes, ways and relations and resolves  *)
(* them, one call at a time.                                               *)
(***************************************************************************)
\* the node lists handed to ways_insert_back, the way ids handed to
\* wayListMultiPolygon (way 2 is never stored)
AssembleNodeVecs == NodeVecs \cup {<<>>, <<0>>}
AssembleWayVecs == {<<>>, <<1>>, <<2>>}
\* the coordinate this caller stores for node i, one per node
AssembleCoord(i) == IF i = 0 THEN <<10, 20>> ELSE <<30, 40>>
\* the relation it stores: way 1 and way 2 as outers
AssembleRelVals == {<< <<1, 2>>, <<>> >>}

\* no call of wayListMultiPolygon is under way
Idle == pc = "idle"

\* the handles ways_insert_back has returned that still name a node vector
WayHandles == {h \in DOMAIN issued : Deref(St, get_address_from_handle(St, h)).t = "way"}

\* the record of a call of a const method on handle h that returned r or
\* threw exc
Returned(name, h, r, exc) ==
    /\ call' = [op |-> name, i |-> h, g |-> "", v |-> retrieve(St, h)]
    /\ ret' = r
    /\ err' = exc
    /\ result' = 0
    /\ attempts' = 0
    /\ UNCHANGED <<variant, nodes, ways, relations, generated, heap, map_size, file_size,
                   base, attached, issued, inserted, mergeVars>>

\* Way -> Linestring
nodeListLinestring(handle) ==
    /\ Idle /\ attached
    /\ LET way == retrieve(St, handle)
           ls == fillPoints(St, way)
       IN  Returned("nodeListLinestring", handle, ls.v, ls.exc)

\* Way -> Polygon: the outer ring filled, then geom::correct(poly)
nodeListPolygon(handle) ==
    /\ Idle /\ attached
    /\ LET way == retrieve(St, handle)
           outer == fillPoints(St, way)
       IN  Returned("nodeListPolygon", handle,
                    IF outer.exc = "none"
                    THEN correct(<<[outer |-> outer.v, inners |-> <<>>]>>)[1] ELSE <<>>,
                    outer.exc)

wayIsClosed(handle) ==
    /\ Idle /\ attached
    /\ LET way == retrieve(St, handle)
       IN  Returned("wayIsClosed", handle, way = <<>> \/ way[1] = way[Len(way)], "none")

\* makeWayList and the call of wayListMultiPolygon on it; the ways it names
\* are absent or hold a node (isClosed reads the ends of the way)
makeWayList(outerWayVec, innerWayVec) ==
    /\ Idle /\ attached
    /\ \A k \in 1..Len(outerWayVec) : WayStore_at(St, outerWayVec[k]).v # <<>>
          \/ WayStore_at(St, outerWayVec[k]).exc # "none"
    /\ \A k \in 1..Len(innerWayVec) : WayStore_at(St, innerWayVec[k]).v # <<>>
          \/ WayStore_at(St, innerWayVec[k]).exc # "none"
    /\ outerWayIds' = outerWayVec
    /\ innerWayIds' = innerWayVec
    /\ pc' = "call"
    /\ calls' = MaxCalls - 1
    /\ last' = [calls |-> 0]
    /\ UNCHANGED <<phase, outers, inners, done, it, added, mp, within, err, storeVars>>

\* the caller is done with what wayListMultiPolygon returned or threw: the
\* locals of the call are gone
leave ==
    /\ pc \in {"return", "thrown"}
    /\ outerWayIds' = <<>>
    /\ innerWayIds' = <<>>
    /\ pc' = "idle"
    /\ phase' = "outer"
    /\ outers' = <<>>
    /\ inners' = <<>>
    /\ done' = EmptyMap
    /\ it' = 1
    /\ added' = 0
    /\ mp' = <<>>
    /\ within' = EmptyMap
    /\ calls' = 0
    /\ last' = [calls |-> 0]
    /\ UNCHANGED <<err, storeVars>>

NextAssemble ==
    \/ Idle /\ \E i \in NodeIDs : nodes_insert_back(i, AssembleCoord(i))
    \/ Idle /\ \E i \in WayIDs, nodeVec \in AssembleNodeVecs : ways_insert_back(i, nodeVec)
    \/ Idle /\ \E i \in RelIDs, rv \in AssembleRelVals : relations_insert_front(i, rv[1], rv[2])
    \/ \E handle \in WayHandles : nodeListLinestring(handle)
    \/ \E handle \in WayHandles : nodeListPolygon(handle)
    \/ \E handle \in WayHandles : wayIsClosed(handle)
    \/ \E outerWayVec \in AssembleWayVecs, innerWayVec \in AssembleWayVecs \ {<<1>>} :
          makeWayList(outerWayVec, innerWayVec)
    \/ NextMerge
    \/ leave

SpecAssemble == Init /\ [][NextAssemble]_vars

(***************************************************************************)
(* Properties of the store.                                                *)
(***************************************************************************)
\* the contents of the containers of store s
StoresOf(s) == <<s.nodes, s.ways, s.relations, s.generated, s.heap>>

MutatingOps == {"nodes_insert_back", "ways_insert_back", "relations_insert_front",
                "store_point", "store_linestring", "store_multi_polygon"}

OutOfRange == {"out_of_range: Could not find node", "out_of_range: Failed to store node"}
NotFound == "out_of_range: Could not find node"

\* nodes_at(i) returns coordinate c
Returns(s, i, c) == nodes_at(s, i) = [exc |-> "none", v |-> c]

\* C1, as stated: in both variants, once nodes_insert_back(i, c) has
\* succeeded, nodes_at(i) returns c after every later call but clear(),
\* inserts of the same id with another coordinate included.
C1_Original ==
    [][attached' =>
        /\ \A i \in inserted' \ inserted : Returns(St', i, call'.v)
        /\ \A i \in inserted \cap inserted' : nodes_at(St', i) = nodes_at(St, i)]_vars

\* C1, amended: once nodes_insert_back(i, c) has succeeded, nodes_at(i)
\* returns c after every later call but clear(), except that in the Compact
\* variant a later successful nodes_insert_back(i, c2) makes it return c2.
C1_Amended ==
    [][attached' =>
        /\ \A i \in inserted' \ inserted : Returns(St', i, call'.v)
        /\ \A i \in inserted \cap inserted' :
              IF /\ variant = "Compact"
                 /\ call'.op = "nodes_insert_back"
                 /\ call'.i = i
                 /\ err' = "none"
              THEN Returns(St', i, call'.v)
              ELSE nodes_at(St', i) = nodes_at(St, i)]_vars

\* a way, relation or geometry insert that grew the arena has returned, and
\* a node inserted before it still reads as a coordinate
C1_Witness ==
    /\ attached
    /\ call.op \in MutatingOps \ {"nodes_insert_back"}
    /\ err = "none"
    /\ attempts > 1
    /\ \E i \in inserted : \E c \in Coords : Returns(St, i, c)

\* C2, as stated: when a call of a mutating method returns, the stores hold
\* exactly the effect of one successful run of its operation on the stores
\* the call found, however many attempts raised bad_alloc (so one
\* store_linestring adds exactly one element to the linestring deque).
C2_Original ==
    [][(attached' /\ err' = "none" /\ call'.op \in MutatingOps) =>
        \E r \in func(St, call') : r.exc = "none" /\ StoresOf(r.s) = StoresOf(St')]_vars

\* C3: every live handle retrieves the value it was returned for, through
\* any number of arena growths.
C3_HandlesSurviveGrowth ==
    attached => \A h \in DOMAIN issued : retrieve(St, h) = issued[h]

\* a call that grew the arena has returned, and a handle returned by an
\* earlier call retrieves its value
C3_Witness ==
    /\ attached
    /\ err = "none"
    /\ attempts > 1
    /\ map_size > init_map_size
    /\ \E h \in DOMAIN issued : h # result /\ retrieve(St, h) = issued[h]

\* C4, as stated: a call in which the file was not extended by what map_size
\* grew by, or the file was not mapped again, ends with the fatal exception
\* and leaves map_size as it was.
C4_Original ==
    [][((file_size' - file_size # map_size' - map_size) \/ ~attached') =>
        (err' = "interprocess_exception" /\ map_size' = map_size)]_vars

\* C5: no call surfaces bad_alloc, and a call that surfaces out_of_range
\* ran one attempt and left the mapping, the file and map_size alone.
C5_OnlyOutOfSpaceGrows ==
    [][/\ err' # "bad_alloc"
       /\ err' \in OutOfRange =>
            /\ attempts' = 1
            /\ attached' = attached
            /\ base' = base
            /\ file_size' = file_size
            /\ map_size' = map_size]_vars

\* an out_of_range has been surfaced by a store whose arena grew before
C5_Witness ==
    /\ err \in OutOfRange
    /\ attempts = 1
    /\ map_size > init_map_size

\* C6, as stated: after clear() the three entity stores have size() 0, in
\* both variants, and map_size is what it was.
C6_Original ==
    [][call'.op = "clear" =>
        /\ nodes_size(St') = 0
        /\ WayStore_size(St') = 0
        /\ RelationStore_size(St') = 0
        /\ map_size' = map_size]_vars

\* C7: in the Compact variant nodes_insert_back(id, c) with id at or beyond
\* the reservation surfaces out_of_range after one attempt, leaves every
\* store and the arena as they were, and nodes_at(id) fails likewise.
C7_CompactOutOfRange ==
    [][(/\ variant = "Compact"
        /\ call'.op = "nodes_insert_back"
        /\ call'.i >= osm_store_nodes) =>
        /\ err' = "out_of_range: Failed to store node"
        /\ attempts' = 1
        /\ StoresOf(St') = StoresOf(St)
        /\ nodes_size(St') = nodes_size(St)
        /\ <<map_size, file_size, base, attached>>' = <<map_size, file_size, base, attached>>
        /\ nodes_at(St', call'.i).exc \in OutOfRange]_vars

\* an insert beyond the reservation has failed on a store that holds a node
C7_Witness ==
    /\ variant = "Compact"
    /\ call.op = "nodes_insert_back"
    /\ call.i >= osm_store_nodes
    /\ err = "out_of_range: Failed to store node"
    /\ inserted # {}

\* C8: in the Sparse variant nodes_at(i) fails with NotFound exactly for the
\* ids no nodes_insert_back has succeeded for since the last clear(), and
\* returns a coordinate for the others.
C8_SparseNotFound ==
    (variant = "Sparse" /\ attached) =>
        \A i \in NodeIDs :
            /\ (nodes_at(St, i).exc = NotFound) <=> (i \notin inserted)
            /\ i \in inserted => \E c \in Coords : Returns(St, i, c)

\* one id has been inserted and another has not
C8_Witness ==
    /\ variant = "Sparse"
    /\ attached
    /\ \E i \in inserted : nodes_at(St, i).exc = "none"
    /\ \E i \in NodeIDs \ inserted : nodes_at(St, i).exc = NotFound

\* a successful Sparse nodes_insert_back of an id stored with another coordinate
SparseReinsert ==
    /\ variant = "Sparse"
    /\ attached'
    /\ call'.op = "nodes_insert_back"
    /\ err' = "none"
    /\ call'.i \in inserted
    /\ ~Returns(St, call'.i, call'.v)

\* C9, as stated: in the Sparse variant a second insert of an id with
\* another coordinate wins, and size() counts the id once.
C9_Original ==
    [][SparseReinsert =>
        /\ Returns(St', call'.i, call'.v)
        /\ NodeStore_size(St') = NodeStore_size(St)]_vars

\* C9, amended: in the Sparse variant the first insert of an id wins: after
\* a second insert with another coordinate nodes_at(i) still returns the
\* first coordinate, and size() counts the id once.
C9_Amended ==
    [][SparseReinsert =>
        /\ nodes_at(St', call'.i) = nodes_at(St, call'.i)
        /\ nodes_at(St', call'.i).exc = "none"
        /\ NodeStore_size(St') = NodeStore_size(St)]_vars

\* an id has been inserted a second time, with a coordinate it does not read as
C9_Witness ==
    /\ variant = "Sparse"
    /\ attached
    /\ call.op = "nodes_insert_back"
    /\ err = "none"
    /\ \E c \in Coords : c # call.v /\ Returns(St, call.i, c)
    /\ NodeStore_size(St) = Cardinality(inserted)


(***************************************************************************)
(* Properties of the ring stitching.                                       *)
(***************************************************************************)
\* the nodes of the way that the for loop of mergeMultiPolygonWays stands at
WayAtIt == WayStore_at(St, WaySeq[it]).v

\* C10, as stated: when the stitching joins a way to a chain (by any of the
\* four cases), the node they were matched at occurs once at the junction,
\* so the chain grows by the way's other nodes only; and the outer ways
\* [1,2,3], [3,4,1] (forward join) and [1,2,3], [1,4,3] (reversed join)
\* stitch into the single chain 1,2,3,4,1.
C10_Original ==
    [][/\ (pc = "for" /\ pc' = "for" /\ it' = it + 1 /\ Len(Results') = Len(Results)) =>
            \A k \in 1..Len(Results) :
                Results'[k] # Results[k] =>
                    Len(Results'[k]) = Len(Results[k]) + Len(WayAtIt) - 1
       /\ (pc' = "fill" /\ outerWayIds \in {<<200, 201>>, <<200, 301>>}) =>
            outers' = << <<1, 2, 3, 4, 1>> >>]_vars

\* C11, as stated: a chain of the working set whose first node equals its
\* last node (a closed way emitted as a chain, or a chain closed by earlier
\* joins) is never extended: no step of the stitching appends or prepends a
\* way to it.
C11_Original ==
    [][pc = "for" =>
          \A k \in 1..Len(Results) :
              isClosed(Results[k]) => (k <= Len(Results') /\ Results'[k] = Results[k])]_vars

\* the way ids handed to the call, and whether the way store holds them all
CallWayIDs ==
    {outerWayIds[k] : k \in 1..Len(outerWayIds)} \cup {innerWayIds[k] : k \in 1..Len(innerWayIds)}
AllWaysPresent == \A w \in CallWayIDs : WayStore_at(St, w).exc = "none"
\* way id w is marked in map d
Marked(d, w) == w \in DOMAIN d /\ d[w]

\* C12: with all ways of the sequences present (and none empty), both
\* mergeMultiPolygonWays calls return; when one returns, every way id of its
\* sequence is marked done; a pass starts with added = 0, every increment of
\* added marks a way done that was not, and the loop goes on to another pass
\* only when added > 0, so each pass that does not end the loop marks at
\* least one previously undone way.
C12_MergeTerminates ==
    /\ (AllWaysPresent /\ outerWayIds # <<>>) => <>(pc = "fill")
    /\ []((pc = "while" /\ added = 0) =>
            \A k \in 1..Len(WaySeq) : Marked(done, WaySeq[k]))
    /\ [](pc = "fill" => \A w \in CallWayIDs : Marked(done, w))
    /\ [][/\ (pc' = "for" /\ pc # "for") => added' = 0
          /\ added' > added =>
                \E w \in CallWayIDs : ~Marked(done, w) /\ Marked(done', w)
          /\ (pc = "while" /\ pc' = "for" /\ phase' = phase) => added > 0]_vars

\* both merges have returned and the outer one took a seed and a join: two
\* open ways make one chain
C12_Witness ==
    /\ pc = "fill"
    /\ Len(outerWayIds) = 2
    /\ Len(outers) = 1
    /\ \A k \in 1..2 : ~isClosed(WayStore_at(St, outerWayIds[k]).v)
    /\ \A w \in CallWayIDs : Marked(done, w)

\* the rings filled from the chains the call ended on, and the elements of a
\* sequence
InnerRing(i) == fillPoints(St, inners[i]).v
OuterRing(o) == fillPoints(St, outers[o]).v
Range(q) == {q[k] : k \in 1..Len(q)}
\* the polygons of the returned multipolygon that hold inner chain i
PolygonsOf(i) == {o \in 1..Len(mp) : correctRing(InnerRing(i), FALSE) \in Range(mp[o].inners)}

\* C13, as stated: in a returned multipolygon no inner chain is attached to
\* two or more polygons, whatever relation within is.
C13_Original ==
    pc = "return" => \A i \in 1..Len(inners) : Cardinality(PolygonsOf(i)) <= 1

\* C13, amended: in a returned multipolygon an inner chain is attached to
\* exactly the polygons whose outer ring it is within: to none, to one, or to
\* several of them.
C13_Amended ==
    (pc = "return" /\ outerWayIds # <<>>) =>
        /\ Len(mp) = Len(outers)
        /\ \A i \in 1..Len(inners) :
              PolygonsOf(i) = {o \in 1..Len(outers) : within[<<InnerRing(i), OuterRing(o)>>]}

\* a multipolygon of two polygons is returned, the one inner ring in both
C13_Witness ==
    /\ pc = "return"
    /\ Len(mp) = 2
    /\ Len(inners) = 1
    /\ PolygonsOf(1) = {1, 2}

(***************************************************************************)
(* Properties of the assembler next to the inserts.                        *)
(***************************************************************************)
\* the step is a call of the store's method or of a const method on a way
\* (those set call; the steps of wayListMultiPolygon change its locals)
CallStep(ops) == call'.op \in ops /\ mergeVars' = mergeVars
ReferenceErrors == {"out_of_range: Could not find node", "out_of_range: Could not find way"}
\* the node ids of the ways the call of wayListMultiPolygon names
CallNodeIDs == UNION {Range(WayStore_at(St, w).v) : w \in CallWayIDs}
\* node id n was never inserted; node id n is one that nodes_at throws for
NeverInserted(n) == n \notin inserted
Unresolvable(n) == IF variant = "Compact" THEN n >= osm_store_nodes ELSE n \notin inserted

\* C14, as stated: ways_insert_back and relations_insert_front end without
\* a reference error whatever the node store and way store hold; and a
\* reference that dangles (a node id never inserted, a way id not stored)
\* raises NotFound / OutOfRange exactly when nodeListLinestring,
\* nodeListPolygon or wayListMultiPolygon resolves it.
C14_Original ==
    [][/\ CallStep({"ways_insert_back", "relations_insert_front"}) =>
              err' \in {"none", "interprocess_exception"}
       /\ CallStep({"nodeListLinestring", "nodeListPolygon"}) =>
              (err' \in ReferenceErrors <=> \E n \in Range(call'.v) : NeverInserted(n))
       /\ CallStep({"wayIsClosed"}) => err' = "none"
       /\ (pc = "correct" /\ pc' = "return") =>
              /\ AllWaysPresent
              /\ \A n \in CallNodeIDs : ~NeverInserted(n)
       /\ pc' = "thrown" => err' \in ReferenceErrors]_vars

\* C14, amended: as above, but a node id dangles for the assembler only if
\* nodes_at throws for it: in Sparse an id never inserted, in Compact an id
\* at or beyond the reserved node count; a Compact id below the reserved
\* count that was never inserted resolves to the zero LatpLon without error.
C14_Amended ==
    [][/\ CallStep({"ways_insert_back", "relations_insert_front"}) =>
              err' \in {"none", "interprocess_exception"}
       /\ CallStep({"nodeListLinestring", "nodeListPolygon"}) =>
              /\ err' \in ReferenceErrors <=> \E n \in Range(call'.v) : Unresolvable(n)
              /\ err' \notin ReferenceErrors => err' = "none"
       /\ CallStep({"wayIsClosed"}) => err' = "none"
       /\ (pc = "correct" /\ pc' = "return") =>
              /\ AllWaysPresent
              /\ \A n \in CallNodeIDs : ~Unresolvable(n)
       /\ pc' = "thrown" => err' \in ReferenceErrors]_vars

\* a way was stored with a node id that nodes_at does not find, and
\* nodeListLinestring on its handle has thrown
C14_Witness ==
    /\ pc = "idle"
    /\ call.op = "nodeListLinestring"
    /\ call.i \in WayHandles
    /\ \E n \in Range(call.v) : Unresolvable(n)
    /\ err = "out_of_range: Could not find node"

\* the node list that handle h was returned for by ways_insert_back
InsertedList(h) == issued[h]
\* the (lon, latp) of the node that nodes_at returns for id n
LonLatp(n) == <<nodes_at(St, n).v[2], nodes_at(St, n).v[1]>>

\* C15: for a way inserted with node list N, all of whose node ids nodes_at
\* resolves, nodeListLinestring on the handle returns |N| points, the k-th
\* being (lon, latp) of nodes_at(N[k]); and wayIsClosed on the handle holds
\* if and only if N's first node id equals its last (an empty N, which has
\* neither, reports closed).
C15_LinestringFollowsNodeList ==
    [][/\ (CallStep({"nodeListLinestring"})
             /\ \A n \in Range(InsertedList(call'.i)) : ~Unresolvable(n)) =>
              /\ err' = "none"
              /\ Len(ret') = Len(InsertedList(call'.i))
              /\ \A k \in 1..Len(ret') : ret'[k] = LonLatp(InsertedList(call'.i)[k])
       /\ CallStep({"wayIsClosed"}) =>
              LET N == InsertedList(call'.i)
              IN  /\ err' = "none"
                  /\ N # <<>> => (ret' <=> N[1] = N[Len(N)])
                  /\ N = <<>> => ret']_vars

\* nodeListLinestring has returned the three points of a way whose node
\* list names two nodes with different coordinates
C15_Witness ==
    /\ pc = "idle"
    /\ call.op = "nodeListLinestring"
    /\ err = "none"
    /\ Len(InsertedList(call.i)) = 3
    /\ Len(ret) = 3
    /\ ret[1] # ret[2]
    /\ ret[1] = ret[3]

\* C16: a call of wayListMultiPolygon with an empty outer sequence returns
\* the empty multipolygon and no error, whatever the inner sequence names
\* (way ids absent from the way store included), and resolves nothing: it
\* never enters a merge or the filling, and no way id is looked at.
C16_NoOutersQuits ==
    outerWayIds = <<>> =>
        /\ pc \in {"call", "return"}
        /\ calls >= 1 => pc = "return"
        /\ mp = <<>>
        /\ err = "none"
        /\ done = EmptyMap
        /\ outers = <<>> /\ inners = <<>>

\* the call has returned on no outers and an inner way id that is not stored
C16_Witness ==
    /\ pc = "return"
    /\ calls >= 1
    /\ outerWayIds = <<>>
    /\ innerWayIds # <<>>
    /\ \E k \in 1..Len(innerWayIds) : WayStore_at(St, innerWayIds[k]).exc # "none"
    /\ mp = <<>>
    /\ err = "none"

\* C17, as stated: every growth extends the backing file by the current
\* map_size and doubles map_size, so map_size is init_map_size times a power
\* of two and is the size of the backing file, and only a growth changes it.
C17_Original ==
    /\ [](/\ map_size = file_size
          /\ \E k \in 0..MaxGrowths : map_size = init_map_size * Pow2(k))
    /\ [][map_size' # map_size =>
            /\ attempts' > 1
            /\ map_size' = map_size * Pow2(attempts' - 1)
            /\ file_size' - file_size = map_size' - map_size]_vars

\* C18: a call of wayListMultiPolygon that follows another one on the same
\* outer and inner sequences, with no store mutation in between, ends on the
\* same chains and returns an equal multipolygon (or throws the same
\* exception); and no step of a call changes the node, way, relation or
\* geometry stores.
C18_SameInputSameResult ==
    /\ []((pc \in {"return", "thrown"} /\ calls >= 2) =>
            /\ last.calls = calls - 1
            /\ outers = last.outers
            /\ inners = last.inners
            /\ mp = last.mp
            /\ err = last.err)
    /\ [][UNCHANGED <<nodes, ways, relations, generated, heap>>]_vars

\* the second call has returned a polygon with an inner ring, as the first
C18_Witness ==
    /\ pc = "return"
    /\ calls = 2
    /\ mp = last.mp
    /\ \E o \in 1..Len(mp) : mp[o].inners # <<>>

\* the way ids of the outer sequence
OuterWayIDSet == {outerWayIds[k] : k \in 1..Len(outerWayIds)}

\* C19, as stated: the inner chains of a call depend on the inner sequence
\* and the way store only: they are the chains that mergeMultiPolygonWays
\* makes of the inner sequence on its own.
C19_Original ==
    pc = "fill" =>
        inners = mergeMultiPolygonWays(<<>>, EmptyMap, St, innerWayIds).results

\* C19, amended: the inner chains depend on the inner sequence, the way
\* store and the way ids of the outer sequence: a way id that the outer
\* sequence names is skipped in the inner one, and the inner chains are the
\* chains that mergeMultiPolygonWays makes on its own of the inner sequence
\* without those ids.
C19_Amended ==
    pc = "fill" =>
        inners = mergeMultiPolygonWays(<<>>, EmptyMap, St,
                     SelectSeq(innerWayIds, LAMBDA w : w \notin OuterWayIDSet)).results

\* both merges have returned, the inner sequence names a way of the outer
\* sequence and no inner chain was made of it
C19_Witness ==
    /\ pc = "fill"
    /\ innerWayIds # <<>>
    /\ \A k \in 1..Len(innerWayIds) : innerWayIds[k] \in OuterWayIDSet
    /\ inners = <<>>
    /\ mergeMultiPolygonWays(<<>>, EmptyMap, St, innerWayIds).results # <<>>

\* chain c and way N match by one of the four endpoint cases
Matches(c, N) ==
    \/ c[Len(c)] = N[1] \/ c[Len(c)] = N[Len(N)] \/ N[Len(N)] = c[1] \/ N[1] = c[1]
\* chain c after way N was joined to it by the first of the four cases that
\* holds, in the order C.last==N.first, C.last==N.last, N.last==C.first,
\* N.first==C.first (the way's nodes all go in)
JoinedInOrder(c, N) ==
    IF c[Len(c)] = N[1] THEN c \o N
    ELSE IF c[Len(c)] = N[Len(N)] THEN c \o Reverse(N)
    ELSE IF N[Len(N)] = c[1] THEN N \o c
    ELSE Reverse(N) \o c

\* C20: a pass looks at the ways in input order, one position after the
\* other; a way marked done is not considered again (no chain changes); an
\* undone open way that matches a chain is joined to the earliest-created
\* chain that matches by any of the four cases, by the first case that holds
\* for that chain, to that chain only, and is marked done; one that matches
\* no chain changes no chain and stays undone.
C20_TieBreaksFollowInputOrder ==
    /\ [][(pc = "for" /\ it <= Len(WaySeq)) =>
          LET w == WaySeq[it]
              N == WayAtIt
              first == Min({k \in 1..Len(Results) : Matches(Results[k], N)})
          IN  /\ pc' = "for" => it' = it + 1
              /\ Marked(done, w) => (Results' = Results /\ done' = done /\ added' = added)
              /\ (~Marked(done, w) /\ pc' = "for" /\ ~isClosed(N)) =>
                    IF \E k \in 1..Len(Results) : Matches(Results[k], N)
                    THEN /\ Results' = [Results EXCEPT ![first] = JoinedInOrder(Results[first], N)]
                         /\ Marked(done', w)
                         /\ added' = added + 1
                    ELSE /\ Results' = Results
                         /\ ~Marked(done', w)
                         /\ added' = added]_vars
    /\ [][(pc \in {"for", "while"}) =>
            (\A w \in DOMAIN done : done[w] => Marked(done', w))]_vars

\* an open way has just been joined to the first of two chains that both
\* match it, by the second of the four cases (appended reversed)
C20_Witness ==
    /\ pc = "for"
    /\ phase = "outer"
    /\ it = 4
    /\ Len(outerWayIds) = 3
    /\ Len(outers) = 2
    /\ Marked(done, outerWayIds[3])
    /\ LET N == WayStore_at(St, outerWayIds[3]).v
       IN  /\ ~isClosed(N)
           /\ Matches(outers[2], N)
           /\ Len(outers[1]) > Len(N)
           /\ LET C == SubSeq(outers[1], 1, Len(outers[1]) - Len(N))
              IN  /\ C[Len(C)] # N[1]
                  /\ outers[1] = C \o Reverse(N)

\* the positions of the running sequence whose way is not marked done
Undone == {k \in 1..Len(WaySeq) : ~Marked(done, WaySeq[k])}
\* how many way ids are marked done in map d
DoneCount(d) == Cardinality({w \in DOMAIN d : d[w]})

\* C21: a chain is seeded only at the end of a complete pass that added
\* nothing (no closed way emitted, no join made); the seed is the first way
\* of the sequence not yet done, it is open, its nodes are copied unreversed
\* as a new chain behind the chains there are, and it is marked done; a pass
\* that added something, or one that left no way undone, is followed by no
\* seed; during a pass only a closed way starts a chain, and between the end
\* of a pass and the next pass at most one way is seeded.
C21_SeedOnlyAfterIdlePass ==
    /\ [][(pc = "for" /\ it > Len(WaySeq)) =>
            /\ (added # 0 \/ Undone = {}) =>
                  (Results' = Results /\ DoneCount(done') = DoneCount(done))
            /\ (added = 0 /\ Undone # {} /\ pc' # "thrown") =>
                  LET w == WaySeq[Min(Undone)]
                      N == WayStore_at(St, w).v
                  IN  /\ ~isClosed(N)
                      /\ Results' = Append(Results, N)
                      /\ Marked(done', w)
                      /\ DoneCount(done') = DoneCount(done) + 1
                      /\ added' = 1
            /\ pc' \in {"while", "thrown"}]_vars
    /\ [][(pc = "for" /\ it <= Len(WaySeq) /\ Len(Results') > Len(Results)) =>
            isClosed(WayAtIt)]_vars
    /\ [][(pc = "while") =>
            (outers' = outers /\ inners' = inners /\ done' = done /\ pc' # "while")]_vars

\* two open ways that share no end were seeded one after the other: the
\* first way of the sequence after the first pass, the second, behind it,
\* after a pass that could join it to nothing
C21_Witness ==
    /\ pc = "while"
    /\ phase = "outer"
    /\ added = 1
    /\ Len(outerWayIds) = 2
    /\ Len(outers) = 2
    /\ outers[1] = WayStore_at(St, outerWayIds[1]).v
    /\ outers[2] = WayStore_at(St, outerWayIds[2]).v
    /\ ~isClosed(outers[1])
    /\ ~isClosed(outers[2])
    /\ Marked(done, outerWayIds[2])

\* poly.inners() of outer chain o once the loop over filledInners has passed
\* the first i inner rings
RECURSIVE InnersOf(_, _)
InnersOf(o, i) ==
    IF i = 0 THEN <<>>
    ELSE LET rest == InnersOf(o, i - 1)
         IN  IF within[<<InnerRing(i), OuterRing(o)>>] THEN Append(rest, InnerRing(i))
             ELSE rest
\* every node of every chain is in the node store
ChainsResolve ==
    \A c \in Range(outers) \cup Range(inners) : fillPoints(St, c).exc = "none"

\* C22: when the polygons are filled there is one polygon per outer chain, in
\* the order of the chains, whose outer ring is that chain's points and whose
\* inner rings are the inner chains within that outer ring, in the order of
\* the inner chains; an inner chain within several outer rings is in each of
\* their polygons, one within none is in no polygon, and whatever within
\* answers the filling raises no error when the nodes of the chains resolve.
C22_OnePolygonPerOuter ==
    /\ [](pc = "correct" =>
            /\ err = "none"
            /\ Len(mp) = Len(outers)
            /\ \A o \in 1..Len(outers) :
                  /\ mp[o].outer = OuterRing(o)
                  /\ mp[o].inners = InnersOf(o, Len(inners))
            /\ \A i \in 1..Len(inners) :
                  (\A o \in 1..Len(outers) : ~within[<<InnerRing(i), OuterRing(o)>>]) =>
                      \A o \in 1..Len(mp) : InnerRing(i) \notin Range(mp[o].inners))
    /\ [][(pc = "fill" /\ ChainsResolve) => (pc' = "correct" /\ err' = "none")]_vars

\* two polygons were filled from two outer chains: the second inner chain is
\* in both, behind the first inner chain in the first polygon
C22_Witness ==
    /\ pc = "correct"
    /\ Len(outers) = 2
    /\ Len(inners) = 2
    /\ InnerRing(1) # InnerRing(2)
    /\ mp[1].inners = <<InnerRing(1), InnerRing(2)>>
    /\ mp[2].inners = <<InnerRing(2)>>

(***************************************************************************)
(* Properties of an insert under an id that is already stored.             *)
(***************************************************************************)
\* the entry stored under pseudo id i
RelationStore_at(s, i) == s.heap[s.relations[i]].v
\* the step is a call of ways_insert_back / relations_insert_front with an
\* id that the store holds already
ReInsertsWay == call'.op = "ways_insert_back" /\ call'.i \in DOMAIN ways
ReInsertsRelation == call'.op = "relations_insert_front" /\ call'.i \in DOMAIN relations

\* C23: ways_insert_back(i, N2) on a store that holds a node list N1 under i
\* leaves N1 stored under i and the way store at its size, and when it
\* returns, it returns the handle of the list stored first, which still
\* retrieves N1; relations_insert_front with a stored pseudo id does the
\* same to the relation store.
C23_FirstInsertWins ==
    /\ [][ReInsertsWay =>
            /\ DOMAIN ways' = DOMAIN ways
            /\ WayStore_size(St') = WayStore_size(St)
            /\ WayStore_at(St', call'.i).v = WayStore_at(St, call'.i).v
            /\ err' = "none" =>
                  /\ result' = ways[call'.i]
                  /\ retrieve(St', result') = WayStore_at(St, call'.i).v]_vars
    /\ [][ReInsertsRelation =>
            /\ DOMAIN relations' = DOMAIN relations
            /\ RelationStore_size(St') = RelationStore_size(St)
            /\ RelationStore_at(St', call'.i) = RelationStore_at(St, call'.i)
            /\ err' = "none" =>
                  /\ result' = relations[call'.i]
                  /\ retrieve(St', result') = RelationStore_at(St, call'.i)]_vars

\* ways_insert_back has returned from an insert of a node list under an id
\* whose stored node list is another one
C23_Witness ==
    /\ call.op = "ways_insert_back"
    /\ err = "none"
    /\ call.i \in DOMAIN ways
    /\ WayStore_at(St, call.i).v # call.v
    /\ result = ways[call.i]
    /\ retrieve(St, result) # call.v

====
